---- MODULE Spec2Model ----
(***************************************************************************)
(* Verification model of the gaming-center client (pavkata12/client):      *)
(*   - LockScreen session handlers      (src/client/src/lock_screen.py)    *)
(*   - NetworkManager                   (src/client/src/network_manager.py)*)
(*   - KioskController                  (src/client/src/kiosk_controller.py)*)
(* Time is counted in minutes.  An optional value (Python None or a value) *)
(* is the empty sequence or a one-element sequence.                        *)
(***************************************************************************)
EXTENDS Integers, Sequences, FiniteSets, TLC

\* ------------------------------------------------------------------ bounds
MaxNow == 90
MaxEnd == 150
MaxStale == 1
MaxTasks == 2
MaxLines == 2
MaxWrites == 3
MaxLaunches == 2

\* -------------------------------------------------------- optional values
None == <<>>
Some(x) == <<x>>
IsNone(o) == o = <<>>
Val(o) == o[1]

\* Python truthiness of an optional number: None and 0 are falsy.
Truthy(o) == (~IsNone(o)) /\ Val(o) # 0

\* ---------------------------------------------------------------- inputs
MinutesPerHour == 60
SessionIds == {None, Some(7)}
Durations == {None, Some(0), Some(-1), Some(1)}
ExtendMinutes == {None, Some(0), Some(-30), Some(30)}
AdvanceBy == {30}

VARIABLES
    now,            \* wall clock, datetime.now(), in minutes
    session,        \* LockScreen.state : SessionState
    ended_emits,    \* session_ended emissions since the last accepted start
    last_msg,       \* last operation applied to the lock screen
    pause_snapshot, \* end_time - now at the moment of the last pause
    ext_since_pause, \* an extend_session was applied since the last pause
    mode,           \* KioskController.mode : KioskMode
    registry,       \* the policy values in the registry, by value name
    backup_files,   \* data/backup/<key path>.json, by key path
    running_apps,   \* KioskController.running_apps (names)
    process_cache,  \* KioskController.process_cache (names)
    kiosk_mode_changed, \* last value emitted on kiosk_mode_changed
    kpc,            \* per caller: position inside enable/disable
    kres,           \* caller 1: outcome of its last enable/disable call
    pre_enable,     \* caller 1: registry when its last enable call began
    applied,        \* caller 1: values its last enable call has set
    enable_ok,      \* caller 1: its last enable call ran to the end and returned True
    requested,      \* caller 1: the call it made last, "enable" or "disable"
    procs,          \* the processes running on the machine
    blocked,        \* process_blocked emissions so far, by name
    sweep_op,       \* the enforcement step taken last
    allowed_processes, \* KioskController.allowed_processes
    blocked_processes, \* KioskController.blocked_processes
    conn,           \* NetworkManager.state : ConnectionState
    sock,           \* NetworkManager.socket: "none", "open" or "closed"
    running,        \* NetworkManager.running
    thr,            \* how many threads are at each position of the code
    tasks,          \* pending _reconnect threads, by their delay
    link_ok,        \* the peer still answers on the open socket
    server_up,      \* a connect to the server would succeed
    net_op,         \* the NetworkManager step taken last
    emitted,        \* the signals emitted by that step
    delays,         \* reconnect delays scheduled since the last connect
    failed_reconnects, \* failed _reconnect attempts since the last connect
    terminal_error, \* the max-attempts error was emitted since then
    user_disconnected, \* disconnect() was called since the last connect
    terminal_disabled, \* maintenance_mode/computer_removed was handled
                       \* since the last connect made by the operator
    wire,           \* what the server has sent and no recv has returned yet
    sent,           \* the lines the server has sent on this connection
    rxbuf,          \* the local "buffer" of the receive loop at a position
    dispatched,     \* the lines whose handler was invoked, in that order
    written,        \* what sendall has put on the transport, in that order
    send_result,    \* what the caller's last send_message returned
    connect_result  \* what the last connect_to_server returned

sessVars == <<now, session, ended_emits, last_msg, pause_snapshot, ext_since_pause>>

kioskVars == <<mode, registry, backup_files, running_apps, process_cache,
               kiosk_mode_changed, kpc, kres, pre_enable, applied, enable_ok,
               requested, procs, blocked, sweep_op, allowed_processes,
               blocked_processes>>

\* The enforcement sweep's part of the state.
sweepVars == <<procs, blocked, sweep_op, allowed_processes, blocked_processes>>

\* The transport's part of the state: the two directions of the socket.
ioVars == <<wire, sent, rxbuf, dispatched, written, send_result>>

netVars == <<conn, sock, running, thr, tasks, link_ok, server_up, net_op, emitted,
             delays, failed_reconnects, terminal_error, user_disconnected,
             terminal_disabled, wire, sent, rxbuf, dispatched, written,
             send_result, connect_result>>

vars == <<now, session, ended_emits, last_msg, pause_snapshot, ext_since_pause,
          mode, registry, backup_files, running_apps, process_cache,
          kiosk_mode_changed, kpc, kres, pre_enable, applied, enable_ok,
          requested, procs, blocked, sweep_op, allowed_processes,
          blocked_processes,
          conn, sock, running, thr, tasks, link_ok, server_up, net_op, emitted,
          delays, failed_reconnects, terminal_error, user_disconnected,
          terminal_disabled, wire, sent, rxbuf, dispatched, written,
          send_result, connect_result>>

\* ------------------------------------------------------ SessionState
SessionState ==
    [active |-> FALSE, session_id |-> None, end_time |-> None, paused |-> FALSE,
     pause_time |-> None, remaining_time |-> None, timer_process |-> FALSE]

Msg(t, a) == [type |-> t, arg |-> a]

\* close_timer_ui: terminate the timer process if there is one.
close_timer_ui(s) == [s EXCEPT !.timer_process = FALSE]

\* launch_timer_ui: close a previous process, spawn a new one; a failure of
\* the spawn is caught inside and leaves no process.
launch_timer_ui(s, spawned) == [close_timer_ui(s) EXCEPT !.timer_process = spawned]

\* handle_start_session
handle_start_session(s, t, id, duration, spawned) ==
    IF ~Truthy(id) \/ ~Truthy(duration)
    THEN s
    ELSE launch_timer_ui(
            [s EXCEPT !.active = TRUE, !.paused = FALSE, !.pause_time = None,
                      !.remaining_time = None, !.session_id = id,
                      !.end_time = Some(t + Val(duration) * MinutesPerHour)],
            spawned)

\* handle_end_session
handle_end_session(s) ==
    IF ~s.active
    THEN s
    ELSE close_timer_ui(
            [s EXCEPT !.active = FALSE, !.session_id = None, !.end_time = None,
                      !.paused = FALSE, !.pause_time = None, !.remaining_time = None])

\* An extension counted from the current time instead of the stored end.
handle_extend_session_from_now(s, minutes) ==
    LET m == IF IsNone(minutes) THEN 0 ELSE Val(minutes) IN
    IF m = 0 \/ ~s.active
    THEN s
    ELSE IF ~IsNone(s.end_time)
         THEN [s EXCEPT !.end_time = Some(now + m)]
         ELSE s

\* handle_extend_session: message.get('minutes', 0)
handle_extend_session(s, minutes) ==
    LET m == IF IsNone(minutes) THEN 0 ELSE Val(minutes) IN
    IF m = 0 \/ ~s.active
    THEN s
    ELSE IF ~IsNone(s.end_time)
         THEN [s EXCEPT !.end_time = Some(Val(s.end_time) + m)]
         ELSE s

\* A pause that does not test state.active.
handle_pause_session_inactive(s, t) ==
    IF s.paused
    THEN s
    ELSE LET p == [s EXCEPT !.paused = TRUE, !.pause_time = Some(t)] IN
         IF ~IsNone(s.end_time)
         THEN [p EXCEPT !.remaining_time = Some(Val(s.end_time) - t)]
         ELSE p

\* handle_pause_session
handle_pause_session(s, t) ==
    IF ~s.active \/ s.paused
    THEN s
    ELSE LET p == [s EXCEPT !.paused = TRUE, !.pause_time = Some(t)] IN
         IF ~IsNone(s.end_time)
         THEN [p EXCEPT !.remaining_time = Some(Val(s.end_time) - t)]
         ELSE p

\* handle_resume_session: "if self.state.remaining_time" is false for None
\* and for timedelta(0).
handle_resume_session(s, t) ==
    IF ~s.active \/ ~s.paused
    THEN s
    ELSE LET r == [s EXCEPT !.paused = FALSE, !.pause_time = None] IN
         IF Truthy(s.remaining_time)
         THEN [r EXCEPT !.end_time = Some(t + Val(s.remaining_time)),
                        !.remaining_time = None]
         ELSE r

\* update_timer_ui: the expiry check of the local countdown.
update_timer_ui(s, t) ==
    IF ~s.active \/ IsNone(s.end_time)
    THEN s
    ELSE IF Val(s.end_time) - t <= 0 THEN handle_end_session(s) ELSE s

\* A slot that runs the expiry check on a paused session too.
update_status_paused_too(s, t) ==
    IF ~s.active THEN s
    ELSE update_timer_ui(s, t)

\* update_status: the slot of status_timer.
update_status(s, t) ==
    IF ~s.active THEN s
    ELSE IF s.paused THEN s
    ELSE update_timer_ui(s, t)

\* setup_timers: status_timer is created and its timeout connected to
\* update_status; start() is never called on it, here or anywhere else.
status_timer_started == FALSE

\* What the lock screen's own timers do to the session while the clock
\* advances to t: a started status_timer has a period far below one clock
\* step, so it would have run update_status by then.
run_status_timer(s, t) == IF status_timer_started THEN update_status(s, t) ELSE s

\* =================================================== NetworkManager
max_reconnect_attempts == 5
reconnect_delay == 5
MaxDelay == 60

\* ConnectionState as the constructor leaves it.  last_heartbeat is 0 for
\* the initial 0.0 and 1 for a time.time() stamp.
ConnectionState ==
    [connected |-> FALSE, server_ip |-> None, server_port |-> None,
     last_heartbeat |-> 0, reconnect_attempts |-> 0]

ServerIp == "srv"
ServerPort == 5000

\* Positions of the threads of the NetworkManager:
\*   rx               self.receive_thread, inside the while loop
\*   rx_old           a receive thread of an earlier connect, still looping
\*   rx_old_joining   such a thread inside disconnect(), at the joins
\*   hb               a heartbeat thread inside its while loop
\*   lost_first_check, lost_first_act
\*                    _handle_connection_lost called by send_message on the
\*                    heartbeat thread (before and after its connected test)
\*   lost_check, lost_act
\*                    _handle_connection_lost called at the end of a loop
\*   main_joining     the caller's thread inside disconnect(), at the joins
\*   hb_sending       a heartbeat thread inside send_message, in sendall
\*   caller_sending   another thread inside send_message, in sendall
\*   lost_caller_check, lost_caller_act
\*                    _handle_connection_lost called by send_message on
\*                    that other thread
\*   end_rx_act       the receive thread inside LockScreen.handle_end_session,
\*                    past its state.active test
\*   end_timer_act    the GUI thread inside handle_end_session called by
\*                    update_timer_ui, past that test
Positions == {"rx", "rx_old", "rx_old_joining", "hb", "lost_first_check",
              "lost_first_act", "lost_check", "lost_act", "main_joining",
              "hb_sending", "caller_sending", "lost_caller_check",
              "lost_caller_act", "end_rx_act", "end_timer_act"}
DelaySet == {5, 10, 20, 40, 60}

RxPositions == {"rx", "rx_old"}

\* Nothing sent or received yet; the receive loops start with buffer = "".
IoIdle ==
    /\ wire = <<>>
    /\ sent = <<>>
    /\ rxbuf = [pos \in RxPositions |-> <<>>]
    /\ dispatched = <<>>
    /\ written = <<>>
    /\ send_result = "none"

NetIdle ==
    /\ conn = ConnectionState
    /\ sock = "none"
    /\ running = FALSE
    /\ thr = [p \in Positions |-> 0]
    /\ tasks = [d \in DelaySet |-> 0]
    /\ link_ok = FALSE
    /\ server_up = TRUE
    /\ net_op = "init"
    /\ emitted = {}
    /\ delays = <<>>
    /\ failed_reconnects = 0
    /\ terminal_error = FALSE
    /\ user_disconnected = FALSE
    /\ terminal_disabled = FALSE
    /\ connect_result = "none"
    /\ IoIdle

RECURSIVE Pow2(_)
Pow2(n) == IF n <= 0 THEN 1 ELSE 2 * Pow2(n - 1)

Min(a, b) == IF a <= b THEN a ELSE b

\* The delay _handle_connection_lost computes for reconnect_attempts = a.
BackoffDelay(a) == Min(reconnect_delay * Pow2(a - 1), MaxDelay)

_cleanup_connection(c) ==
    [c EXCEPT !.connected = FALSE, !.server_ip = None, !.server_port = None,
              !.last_heartbeat = 0]

TotalTasks == tasks[5] + tasks[10] + tasks[20] + tasks[40] + tasks[60]

\* The threads started by earlier connects that have not finished yet.
LoopThreads ==
    thr["rx"] + thr["rx_old"] + thr["rx_old_joining"] + thr["hb"] + thr["hb_sending"]
    + thr["lost_first_check"] + thr["lost_first_act"]
    + thr["lost_check"] + thr["lost_act"]

Move(from, to) == [thr EXCEPT ![from] = @ - 1, ![to] = @ + 1]
Leave(from) == [thr EXCEPT ![from] = @ - 1]

\* _start_threads: the new receive thread becomes self.receive_thread; a
\* receive thread that is still looping goes on as a stale one.
_start_threads ==
    [thr EXCEPT !["rx_old"] = @ + thr["rx"], !["rx"] = 1, !["hb"] = @ + 1]

\* connect_to_server that reports a failed connect on error_occurred.
connect_to_server_reporting(outcome) ==
    IF conn.connected
    THEN /\ outcome = "already"
         /\ connect_result' = "True"
         /\ emitted' = {}
         /\ UNCHANGED <<conn, sock, running, thr, link_ok>>
    ELSE IF server_up
    THEN /\ outcome = "ok"
         /\ connect_result' = "True"
         /\ LoopThreads <= MaxStale
         /\ conn' = [conn EXCEPT !.connected = TRUE, !.server_ip = Some(ServerIp),
                                 !.server_port = Some(ServerPort),
                                 !.last_heartbeat = 1, !.reconnect_attempts = 0]
         /\ sock' = "open"
         /\ link_ok' = TRUE
         /\ running' = TRUE
         /\ thr' = _start_threads
         /\ emitted' = {"connected", "connection_status_changed"}
    ELSE /\ outcome = "failed"
         /\ connect_result' = "False"
         /\ conn' = _cleanup_connection(conn)
         /\ sock' = "none"
         /\ link_ok' = FALSE
         /\ emitted' = {"error_occurred"}
         /\ UNCHANGED <<running, thr>>

\* connect_to_server(ServerIp, ServerPort); outcome is "already", "ok" or
\* "failed".
connect_to_server(outcome) ==
    IF conn.connected
    THEN /\ outcome = "already"
         /\ connect_result' = "True"
         /\ emitted' = {}
         /\ UNCHANGED <<conn, sock, running, thr, link_ok>>
    ELSE IF server_up
    THEN /\ outcome = "ok"
         /\ connect_result' = "True"
         /\ LoopThreads <= MaxStale
         /\ conn' = [conn EXCEPT !.connected = TRUE, !.server_ip = Some(ServerIp),
                                 !.server_port = Some(ServerPort),
                                 !.last_heartbeat = 1, !.reconnect_attempts = 0]
         /\ sock' = "open"
         /\ link_ok' = TRUE
         /\ running' = TRUE
         /\ thr' = _start_threads
         /\ emitted' = {"connected", "connection_status_changed"}
    ELSE /\ outcome = "failed"
         /\ connect_result' = "False"
         /\ conn' = _cleanup_connection(conn)
         /\ sock' = "none"
         /\ link_ok' = FALSE
         /\ emitted' = {}
         /\ UNCHANGED <<running, thr>>

\* A connection was established: the histories start again.
Established ==
    /\ delays' = <<>>
    /\ failed_reconnects' = 0
    /\ terminal_error' = FALSE
    /\ user_disconnected' = FALSE

\* The operator (main thread) calls connect_to_server.
OperatorConnect ==
    /\ thr["main_joining"] = 0
    /\ \E outcome \in {"already", "ok", "failed"} :
         /\ connect_to_server(outcome)
         /\ IF outcome = "ok"
            THEN Established /\ terminal_disabled' = FALSE
            ELSE UNCHANGED <<delays, failed_reconnects, terminal_error,
                             user_disconnected, terminal_disabled>>
    /\ net_op' = "operator_connect"
    /\ UNCHANGED <<tasks, server_up>>
    /\ UNCHANGED <<sessVars, kioskVars, ioVars>>

\* A _reconnect thread wakes up after its delay d.
Reconnect(d) ==
    /\ tasks[d] > 0
    /\ tasks' = [tasks EXCEPT ![d] = @ - 1]
    /\ IF IsNone(conn.server_ip) \/ ~Truthy(conn.server_port)
       THEN /\ net_op' = "step"
            /\ emitted' = {}
            /\ UNCHANGED connect_result
            /\ UNCHANGED <<conn, sock, running, thr, link_ok, delays,
                           failed_reconnects, terminal_error, user_disconnected>>
       ELSE IF conn.connected
       THEN \* connect_to_server returns True at once ("already connected")
            /\ net_op' = "step"
            /\ connect_result' = "True"
            /\ conn' = [conn EXCEPT !.reconnect_attempts = 0]
            /\ emitted' = {}
            /\ UNCHANGED <<sock, running, thr, link_ok, delays,
                           failed_reconnects, terminal_error, user_disconnected>>
       ELSE \E outcome \in {"ok", "failed"} :
            /\ connect_to_server(outcome)
            /\ IF outcome = "failed"
               THEN /\ net_op' = "step"
                    /\ failed_reconnects' = failed_reconnects + 1
                    /\ UNCHANGED <<delays, terminal_error, user_disconnected>>
               ELSE /\ net_op' = "step"
                    /\ Established
    /\ UNCHANGED <<server_up, terminal_disabled>>
    /\ UNCHANGED <<sessVars, kioskVars, ioVars>>

\* The server goes down or comes back.
ServerToggle ==
    /\ server_up' = ~server_up
    /\ net_op' = "step"
    /\ emitted' = {}
    /\ UNCHANGED <<conn, sock, running, thr, tasks, link_ok, delays,
                   failed_reconnects, terminal_error, user_disconnected,
                   terminal_disabled>>
    /\ UNCHANGED <<sessVars, kioskVars, ioVars, connect_result>>

\* The established connection drops (peer closes or resets it).
Drop ==
    /\ sock = "open"
    /\ link_ok
    /\ link_ok' = FALSE
    /\ net_op' = "step"
    /\ emitted' = {}
    /\ UNCHANGED <<conn, sock, running, thr, tasks, server_up, delays,
                   failed_reconnects, terminal_error, user_disconnected,
                   terminal_disabled>>
    /\ UNCHANGED <<sessVars, kioskVars, ioVars, connect_result>>

\* A receive loop ends: running is false, the socket is None, or recv
\* fails or returns no data.  _handle_connection_lost is called next.
RxLeave(pos) ==
    /\ thr[pos] > 0
    /\ ~running \/ sock # "open" \/ ~link_ok
    /\ thr' = Move(pos, "lost_check")
    /\ net_op' = "step"
    /\ emitted' = {}
    /\ UNCHANGED <<conn, sock, running, tasks, link_ok, server_up, delays,
                   failed_reconnects, terminal_error, user_disconnected,
                   terminal_disabled>>
    /\ UNCHANGED <<sessVars, kioskVars, ioVars, connect_result>>

\* A heartbeat loop ends: running is false or the state is not connected.
HbLeave ==
    /\ thr["hb"] > 0
    /\ ~running \/ ~conn.connected
    /\ thr' = Move("hb", "lost_check")
    /\ net_op' = "step"
    /\ emitted' = {}
    /\ UNCHANGED <<conn, sock, running, tasks, link_ok, server_up, delays,
                   failed_reconnects, terminal_error, user_disconnected,
                   terminal_disabled>>
    /\ UNCHANGED <<sessVars, kioskVars, ioVars, connect_result>>

\* A send_message that takes no lock.
lock_never_held == FALSE

\* self.lock is taken by "with self.lock" in send_message and released when
\* the block is left, after sendall or after the _handle_connection_lost
\* that send_message calls: it is held exactly while a thread is in there.
lock_held ==
    thr["hb_sending"] + thr["caller_sending"]
    + thr["lost_first_check"] + thr["lost_first_act"]
    + thr["lost_caller_check"] + thr["lost_caller_act"] > 0

\* The heartbeat is due and sendall fails: send_message calls
\* _handle_connection_lost, returns False, and the loop breaks.
HbSendFails ==
    /\ thr["hb"] > 0
    /\ running /\ conn.connected /\ sock # "none"
    /\ ~lock_held
    /\ sock = "closed" \/ ~link_ok
    /\ thr' = Move("hb", "lost_first_check")
    /\ net_op' = "step"
    /\ emitted' = {}
    /\ UNCHANGED <<conn, sock, running, tasks, link_ok, server_up, delays,
                   failed_reconnects, terminal_error, user_disconnected,
                   terminal_disabled>>
    /\ UNCHANGED <<sessVars, kioskVars, ioVars, connect_result>>

LostStages == {"first", "caller", "final"}
CheckPos(stage) ==
    IF stage = "first" THEN "lost_first_check"
    ELSE IF stage = "caller" THEN "lost_caller_check" ELSE "lost_check"
ActPos(stage) ==
    IF stage = "first" THEN "lost_first_act"
    ELSE IF stage = "caller" THEN "lost_caller_act" ELSE "lost_act"

\* Where a thread goes when _handle_connection_lost returns: the heartbeat
\* thread back to its loop's end, another caller of send_message out of the
\* call (which returns False), a loop thread to its end.
AfterLost(from, stage) ==
    IF stage = "first" THEN Move(from, "lost_check") ELSE Leave(from)

\* LostCheck without the test of state.connected.
LostCheck_untested(stage) ==
    /\ thr[CheckPos(stage)] > 0
    /\ thr' = Move(CheckPos(stage), ActPos(stage))
    /\ net_op' = "step"
    /\ emitted' = {}
    /\ UNCHANGED <<conn, sock, running, tasks, link_ok, server_up, delays,
                   failed_reconnects, terminal_error, user_disconnected,
                   terminal_disabled>>
    /\ UNCHANGED <<sessVars, kioskVars, ioVars, connect_result>>

\* _handle_connection_lost, the test of state.connected.
LostCheck(stage) ==
    /\ thr[CheckPos(stage)] > 0
    /\ thr' = IF conn.connected THEN Move(CheckPos(stage), ActPos(stage))
              ELSE AfterLost(CheckPos(stage), stage)
    /\ net_op' = IF conn.connected THEN "step" ELSE "lost_noop"
    /\ emitted' = {}
    /\ send_result' = IF stage = "caller" /\ ~conn.connected
                      THEN "False" ELSE send_result
    /\ UNCHANGED <<conn, sock, running, tasks, link_ok, server_up, delays,
                   failed_reconnects, terminal_error, user_disconnected,
                   terminal_disabled>>
    /\ UNCHANGED <<sessVars, kioskVars, wire, sent, rxbuf, dispatched, written,
                   connect_result>>

\* LostAct that also gives up the lockdown when the connection is lost.
LostAct_unlocks(stage) ==
    LET attempts == conn.reconnect_attempts + 1 IN
    /\ thr[ActPos(stage)] > 0
    /\ thr' = AfterLost(ActPos(stage), stage)
    /\ IF attempts > max_reconnect_attempts
       THEN /\ conn' = _cleanup_connection(
                          [conn EXCEPT !.reconnect_attempts = attempts])
            /\ sock' = "none"
            /\ link_ok' = FALSE
            /\ terminal_error' = TRUE
            /\ UNCHANGED <<tasks, delays>>
       ELSE /\ TotalTasks < MaxTasks
            /\ conn' = [conn EXCEPT !.connected = FALSE,
                                    !.reconnect_attempts = attempts]
            /\ tasks' = [tasks EXCEPT ![BackoffDelay(attempts)] = @ + 1]
            /\ delays' = Append(delays, BackoffDelay(attempts))
            /\ UNCHANGED <<sock, link_ok, terminal_error>>
    /\ net_op' = "step"
    /\ emitted' = {"error_occurred"}
    /\ UNCHANGED <<running, server_up, failed_reconnects, user_disconnected,
                   terminal_disabled>>
    /\ mode' = "disabled"
    /\ UNCHANGED <<registry, backup_files, running_apps, process_cache,
                   kiosk_mode_changed, kpc, kres, pre_enable, applied, enable_ok,
                   requested, procs, blocked, sweep_op, allowed_processes,
                   blocked_processes>>
    /\ send_result' = IF stage = "caller" THEN "False" ELSE send_result
    /\ UNCHANGED <<sessVars, wire, sent, rxbuf, dispatched, written,
                   connect_result>>

\* _handle_connection_lost, after the test.
LostAct(stage) ==
    LET attempts == conn.reconnect_attempts + 1 IN
    /\ thr[ActPos(stage)] > 0
    /\ thr' = AfterLost(ActPos(stage), stage)
    /\ IF attempts > max_reconnect_attempts
       THEN /\ conn' = _cleanup_connection(
                          [conn EXCEPT !.reconnect_attempts = attempts])
            /\ sock' = "none"
            /\ link_ok' = FALSE
            /\ terminal_error' = TRUE
            /\ UNCHANGED <<tasks, delays>>
       ELSE /\ TotalTasks < MaxTasks
            /\ conn' = [conn EXCEPT !.connected = FALSE,
                                    !.reconnect_attempts = attempts]
            /\ tasks' = [tasks EXCEPT ![BackoffDelay(attempts)] = @ + 1]
            /\ delays' = Append(delays, BackoffDelay(attempts))
            /\ UNCHANGED <<sock, link_ok, terminal_error>>
    /\ net_op' = "step"
    /\ emitted' = {"error_occurred"}
    /\ send_result' = IF stage = "caller" THEN "False" ELSE send_result
    /\ UNCHANGED <<running, server_up, failed_reconnects, user_disconnected,
                   terminal_disabled>>
    /\ UNCHANGED <<sessVars, kioskVars, wire, sent, rxbuf, dispatched, written,
                   connect_result>>

\* disconnect() up to the joins: running is cleared and the socket closed.
StopAndClose ==
    /\ running' = FALSE
    /\ sock' = IF sock = "none" THEN "none" ELSE "closed"
    /\ link_ok' = FALSE
    /\ user_disconnected' = TRUE

\* disconnect() called by the operator on the main thread.
DisconnectBegin ==
    /\ thr["main_joining"] = 0
    /\ StopAndClose
    /\ thr' = [thr EXCEPT !["main_joining"] = 1]
    /\ net_op' = "step"
    /\ emitted' = {}
    /\ UNCHANGED <<conn, tasks, server_up, delays, failed_reconnects,
                   terminal_error, terminal_disabled>>
    /\ UNCHANGED <<sessVars, kioskVars, ioVars, connect_result>>

JoiningPositions == {"main_joining", "rx_old_joining"}

\* disconnect() after the bounded joins: cleanup and the signals.  A stale
\* receive thread that called it from a handler goes back to its loop.
DisconnectFinish(pos) ==
    /\ thr[pos] > 0
    /\ thr' = IF pos = "main_joining" THEN Leave(pos) ELSE Move(pos, "rx_old")
    /\ conn' = _cleanup_connection(conn)
    /\ sock' = "none"
    /\ link_ok' = FALSE
    /\ net_op' = "disconnect_returned"
    /\ emitted' = {"disconnected", "connection_status_changed"}
    /\ UNCHANGED <<running, tasks, server_up, delays, failed_reconnects,
                   terminal_error, user_disconnected, terminal_disabled>>
    /\ UNCHANGED <<sessVars, kioskVars, ioVars, connect_result>>

\* =================================================== KioskController
Callers == {1, 2}

\* The policy values written by _configure_registry, in the order written,
\* and the registry key path each lives under.
ApplyOrder == <<"DisableTaskMgr", "DisableRegistryTools", "NoRun">>
ValueNames == {"DisableTaskMgr", "DisableRegistryTools", "NoRun"}
KeyPaths == <<"System", "Explorer">>
PathOf(n) == IF n = "NoRun" THEN "Explorer" ELSE "System"
NamesOf(p) == {n \in ValueNames : PathOf(n) = p}
LockValue == 1
Apps == {"game"}

\* A backup file is absent (None), unreadable JSON, or a mapping from the
\* value names that existed under the key to their data.
NoFile == [kind |-> "absent"]
Corrupt == [kind |-> "corrupt"]
FileOf(vals) == [kind |-> "json", values |-> vals]

\* The values currently under key path p, as EnumValue enumerates them.
EnumValues(reg, p) == [n \in NamesOf(p) |-> reg[n]]

\* _backup_registry_keys.  out[p] is what happens at key path p:
\*   "ok"      the key is read and its values dumped to the backup file,
\*   "oserror" OpenKey (or the file open) raises WindowsError: warning, skip,
\*   "error"   json.dump raises on a value it cannot serialise: the file is
\*             left truncated and the exception propagates.
BackupOne(files, reg, p, o) ==
    IF o = "ok" THEN [files EXCEPT ![p] = FileOf(EnumValues(reg, p))]
    ELSE IF o = "error" THEN [files EXCEPT ![p] = Corrupt]
    ELSE files

_backup_registry_keys(files, reg, out) ==
    LET f1 == BackupOne(files, reg, KeyPaths[1], out[KeyPaths[1]]) IN
    IF out[KeyPaths[1]] = "error"
    THEN [files |-> f1, raised |-> TRUE]
    ELSE [files |-> BackupOne(f1, reg, KeyPaths[2], out[KeyPaths[2]]),
          raised |-> out[KeyPaths[2]] = "error"]

\* _restore_registry_keys.  out[p] is "ok" or "oserror" (OpenKey raises
\* WindowsError: warning, skip).  A missing file is skipped; a file that is
\* not JSON makes json.load raise, which is re-raised.  Only the values
\* present in the file are written back.
RestoreOne(files, reg, p, o) ==
    IF files[p].kind # "json" \/ o # "ok"
    THEN reg
    ELSE [n \in ValueNames |->
            IF PathOf(n) = p /\ ~IsNone(files[p].values[n])
            THEN files[p].values[n] ELSE reg[n]]

_restore_registry_keys(files, reg, out) ==
    IF files[KeyPaths[1]].kind = "corrupt"
    THEN [registry |-> reg, raised |-> TRUE]
    ELSE LET r1 == RestoreOne(files, reg, KeyPaths[1], out[KeyPaths[1]]) IN
         IF files[KeyPaths[2]].kind = "corrupt"
         THEN [registry |-> r1, raised |-> TRUE]
         ELSE [registry |-> RestoreOne(files, r1, KeyPaths[2], out[KeyPaths[2]]),
               raised |-> FALSE]

\* _configure_registry: the first k SetValueEx calls succeed; with k < 3
\* the next one raises and the exception propagates.
_configure_registry(reg, k) ==
    [registry |-> [n \in ValueNames |->
                     IF \E i \in 1..k : ApplyOrder[i] = n
                     THEN Some(LockValue) ELSE reg[n]],
     raised |-> k < Len(ApplyOrder)]

AppliedNames(k) == {ApplyOrder[i] : i \in 1..k}

BackupOutcomes == [{"System", "Explorer"} -> {"ok", "oserror", "error"}]
RestoreOutcomes == [{"System", "Explorer"} -> {"ok", "oserror"}]
NoSnapshot == [n \in ValueNames |-> None]

\* ------------------------------------------------ enforcement sweep
\* setup_process_lists: some of the names of system_processes and of
\* monitored_processes, spelled as the source spells them.
system_processes == {"explorer.exe", "RuntimeBroker.exe", "System"}
monitored_processes == {"chrome.exe"}

\* str.lower() on the process names used here.
Lower(n) ==
    CASE n = "RuntimeBroker.exe" -> "runtimebroker.exe"
      [] n = "System" -> "system"
      [] OTHER -> n

\* "if proc.pid <= 4"
ReservedPid == 4

\* The processes that may be running: name, pid, the name of the direct
\* parent (None when proc.parent() returns None) and whether proc.kill()
\* raises AccessDenied for it.
Proc(n, pid, parent, protected) ==
    [name |-> n, pid |-> pid, parent |-> parent, protected |-> protected]

Candidates ==
    {Proc("System", 4, None, TRUE),
     Proc("explorer.exe", 100, None, FALSE),
     Proc("RuntimeBroker.exe", 200, None, FALSE),
     Proc("helper.exe", 300, Some("explorer.exe"), FALSE),
     Proc("cmd.exe", 400, None, FALSE),
     Proc("chrome.exe", 500, None, FALSE),
     Proc("widget.exe", 600, Some("RuntimeBroker.exe"), FALSE),
     Proc("guard.exe", 700, None, TRUE)}

BlockedNames == {Lower(p.name) : p \in Candidates}

\* The tests of _monitor_processes that make it skip a process.  A cached
\* name is skipped while the cached pid exists; only monitored names are
\* ever cached by the sweep and no such process exits here.
Skipped(p, cache) ==
    \/ Lower(p.name) \in cache
    \/ Lower(p.name) \in system_processes
    \/ p.pid <= ReservedPid
    \/ (~IsNone(p.parent) /\ Lower(Val(p.parent)) \in system_processes)
    \/ Lower(p.name) \in monitored_processes

\* The monitored names the sweep puts into process_cache.
Cached(p) ==
    /\ Lower(p.name) \notin system_processes
    /\ p.pid > ReservedPid
    /\ ~(~IsNone(p.parent) /\ Lower(Val(p.parent)) \in system_processes)
    /\ Lower(p.name) \in monitored_processes

\* A sweep that does not test the mode.
_monitor_processes_any_mode(m, cache, ps, emits) ==
    LET killed == {p \in ps : ~Skipped(p, cache) /\ ~p.protected} IN
    [procs |-> ps \ killed,
     cache |-> cache \cup {Lower(p.name) : p \in {q \in ps : Cached(q)}},
     blocked |-> [n \in BlockedNames |->
                    emits[n] + Cardinality({p \in killed : Lower(p.name) = n})]]

\* _monitor_processes: nothing unless the mode is ENABLED; every process
\* that is not skipped is killed and process_blocked emitted with its
\* lower-cased name; when kill() raises AccessDenied the loop goes on to
\* the next process.
_monitor_processes(m, cache, ps, emits) ==
    IF m # "enabled"
    THEN [procs |-> ps, cache |-> cache, blocked |-> emits]
    ELSE LET killed == {p \in ps : ~Skipped(p, cache) /\ ~p.protected} IN
         [procs |-> ps \ killed,
          cache |-> cache \cup {Lower(p.name) : p \in {q \in ps : Cached(q)}},
          blocked |-> [n \in BlockedNames |->
                         emits[n] + Cardinality({p \in killed : Lower(p.name) = n})]]

\* setup_timer creates monitor_timer and connects _monitor_processes to
\* its timeout; neither setup_timer nor enable_kiosk_mode nor any other
\* code calls monitor_timer.start().
monitor_timer_started == FALSE

\* __init__: allowed_processes and blocked_processes are empty sets.
ListsIdle ==
    /\ allowed_processes = {}
    /\ blocked_processes = {}

SweepIdle ==
    /\ procs = {}
    /\ blocked = [n \in BlockedNames |-> 0]
    /\ sweep_op = "init"
    /\ ListsIdle

\* The slot _monitor_processes is run.
MonitorProcesses ==
    LET r == _monitor_processes(mode, process_cache, procs, blocked) IN
    /\ procs' = r.procs
    /\ process_cache' = r.cache
    /\ blocked' = r.blocked
    /\ sweep_op' = "sweep"
    /\ UNCHANGED <<mode, registry, backup_files, running_apps, kiosk_mode_changed,
                   kpc, kres, pre_enable, applied, enable_ok, requested,
                   allowed_processes, blocked_processes>>
    /\ UNCHANGED <<sessVars, netVars>>

\* One period of the monitor timer passes: a started timer runs its slot.
SweepInterval ==
    LET r == IF monitor_timer_started
             THEN _monitor_processes(mode, process_cache, procs, blocked)
             ELSE [procs |-> procs, cache |-> process_cache, blocked |-> blocked] IN
    /\ procs' = r.procs
    /\ process_cache' = r.cache
    /\ blocked' = r.blocked
    /\ sweep_op' = "interval"
    /\ UNCHANGED <<mode, registry, backup_files, running_apps, kiosk_mode_changed,
                   kpc, kres, pre_enable, applied, enable_ok, requested,
                   allowed_processes, blocked_processes>>
    /\ UNCHANGED <<sessVars, netVars>>

\* The names update_process_lists is called with.
ListNames == {"cmd.exe", "guard.exe"}

\* _kill_blocked_processes: every process whose lower-cased name is in
\* blocked_processes is killed; AccessDenied is skipped.  No signal.
_kill_blocked_processes(ps, blocklist) ==
    ps \ {p \in ps : Lower(p.name) \in blocklist /\ ~p.protected}

\* update_process_lists(allowed, blocked): both lists are replaced; while
\* the mode is ENABLED the processes named in the new blocked list are
\* killed.  The allowed list is consulted by check_process only.
UpdateProcessLists ==
    \E allowed \in SUBSET ListNames, blocklist \in SUBSET ListNames :
        /\ allowed_processes' = {Lower(n) : n \in allowed}
        /\ blocked_processes' = {Lower(n) : n \in blocklist}
        /\ procs' = IF mode = "enabled"
                    THEN _kill_blocked_processes(procs, {Lower(n) : n \in blocklist})
                    ELSE procs
        /\ sweep_op' = "update"
        /\ UNCHANGED <<mode, registry, backup_files, running_apps, process_cache,
                       kiosk_mode_changed, kpc, kres, pre_enable, applied,
                       enable_ok, requested, blocked>>
        /\ UNCHANGED <<sessVars, netVars>>

KioskInit ==
    /\ mode = "disabled"
    /\ registry \in [ValueNames -> {None, Some(0)}]
    /\ backup_files = [p \in {"System", "Explorer"} |-> NoFile]
    /\ running_apps = {}
    /\ process_cache = {}
    /\ kiosk_mode_changed = None
    /\ kpc = [t \in Callers |-> "idle"]
    /\ kres = "none"
    /\ pre_enable = NoSnapshot
    /\ applied = {}
    /\ enable_ok = FALSE
    /\ requested = "none"
    /\ SweepIdle

\* is_kiosk_mode_enabled and get_kiosk_status read self.mode, with no lock.
is_kiosk_mode_enabled(m) == m = "enabled"

status_map(m) ==
    CASE m = "disabled" -> "Disabled"
      [] m = "enabled" -> "Enabled"
      [] m = "transitioning" -> "Transitioning"

get_kiosk_status(m) == <<is_kiosk_mode_enabled(m), status_map(m)>>

\* Caller 1 is the caller whose calls are recorded in kres, pre_enable and
\* applied; caller 2 is any other thread using the controller.
Observed(t) == t = 1

\* A caller returns from its call with result r.
Return(t, r) ==
    /\ kpc' = [kpc EXCEPT ![t] = "idle"]
    /\ kres' = IF Observed(t) THEN r ELSE kres

Goto(t, pc) ==
    /\ kpc' = [kpc EXCEPT ![t] = pc]
    /\ kres' = IF Observed(t) THEN "none" ELSE kres

\* enable_kiosk_mode, entry: return True when already enabled, otherwise
\* set TRANSITIONING and go on to the backup.
EnableCall(t) ==
    /\ kpc[t] = "idle"
    /\ requested' = IF Observed(t) THEN "enable" ELSE requested
    /\ IF mode = "enabled"
       THEN /\ Return(t, "True")
            /\ UNCHANGED <<mode, pre_enable, applied, enable_ok>>
       ELSE /\ mode' = "transitioning"
            /\ Goto(t, "e_backup")
            /\ pre_enable' = IF Observed(t) THEN registry ELSE pre_enable
            /\ applied' = IF Observed(t) THEN {} ELSE applied
            /\ enable_ok' = IF Observed(t) THEN FALSE ELSE enable_ok
    /\ UNCHANGED <<registry, backup_files, running_apps, process_cache, kiosk_mode_changed>>
    /\ UNCHANGED <<sweepVars, sessVars, netVars>>

EnableBackup(t) ==
    /\ kpc[t] = "e_backup"
    /\ \E out \in BackupOutcomes :
         LET b == _backup_registry_keys(backup_files, registry, out) IN
         /\ backup_files' = b.files
         /\ kpc' = [kpc EXCEPT ![t] = IF b.raised THEN "e_except" ELSE "e_configure"]
    /\ UNCHANGED <<mode, registry, running_apps, process_cache, kiosk_mode_changed,
                   kres, pre_enable, applied>>
    /\ UNCHANGED <<enable_ok, requested, sweepVars, sessVars, netVars>>

EnableConfigure(t) ==
    /\ kpc[t] = "e_configure"
    /\ \E k \in 0..Len(ApplyOrder) :
         LET c == _configure_registry(registry, k) IN
         /\ registry' = c.registry
         /\ applied' = IF Observed(t) THEN AppliedNames(k) ELSE applied
         /\ kpc' = [kpc EXCEPT ![t] = IF c.raised THEN "e_except" ELSE "e_finish"]
    /\ UNCHANGED <<mode, backup_files, running_apps, process_cache, kiosk_mode_changed,
                   kres, pre_enable>>
    /\ UNCHANGED <<enable_ok, requested, sweepVars, sessVars, netVars>>

\* The rest of the try block of enable_kiosk_mode:
\* _kill_blocked_processes (blocked_processes is the empty set the
\* constructor leaves, so no process is killed; process_iter may raise),
\* _start_allowed_apps (launched: the configured apps whose launch succeeds,
\* a failed launch is reported and skipped; it raises when the configuration
\* cannot be read), then ENABLED, the signal and return True.
EnableFinish(t) ==
    /\ kpc[t] = "e_finish"
    /\ \E launched \in SUBSET Apps, raised \in BOOLEAN :
         IF raised
         THEN /\ Goto(t, "e_except")
              /\ UNCHANGED <<mode, running_apps, kiosk_mode_changed, enable_ok>>
         ELSE /\ running_apps' = running_apps \cup launched
              /\ mode' = "enabled"
              /\ kiosk_mode_changed' = Some(TRUE)
              /\ enable_ok' = IF Observed(t) THEN TRUE ELSE enable_ok
              /\ Return(t, "True")
    /\ UNCHANGED <<registry, backup_files, process_cache, pre_enable, applied>>
    /\ UNCHANGED <<requested, sweepVars, sessVars, netVars>>

\* The except clause of enable_kiosk_mode: restore, then DISABLED and
\* return False; an exception of the restore leaves the clause at once.
EnableExcept(t) ==
    /\ kpc[t] = "e_except"
    /\ \E out \in RestoreOutcomes :
         LET r == _restore_registry_keys(backup_files, registry, out) IN
         /\ registry' = r.registry
         /\ IF r.raised
            THEN Return(t, "raised") /\ UNCHANGED mode
            ELSE Return(t, "False") /\ mode' = "disabled"
    /\ UNCHANGED <<backup_files, running_apps, process_cache, kiosk_mode_changed,
                   pre_enable, applied>>
    /\ UNCHANGED <<enable_ok, requested, sweepVars, sessVars, netVars>>

\* disable_kiosk_mode, entry.
DisableCall(t) ==
    /\ kpc[t] = "idle"
    /\ requested' = IF Observed(t) THEN "disable" ELSE requested
    /\ IF mode = "disabled"
       THEN Return(t, "True") /\ UNCHANGED mode
       ELSE mode' = "transitioning" /\ Goto(t, "d_stop")
    /\ UNCHANGED <<registry, backup_files, running_apps, process_cache,
                   kiosk_mode_changed, pre_enable, applied>>
    /\ UNCHANGED <<enable_ok, sweepVars, sessVars, netVars>>

\* _stop_running_apps: every app is terminated and the table cleared; when
\* a kill raises, the exception propagates before the clear and the except
\* clause sets DISABLED and returns False.
DisableStop(t) ==
    /\ kpc[t] = "d_stop"
    /\ \E raised \in BOOLEAN :
         IF raised
         THEN /\ mode' = "disabled"
              /\ Return(t, "False")
              /\ UNCHANGED running_apps
         ELSE /\ kpc' = [kpc EXCEPT ![t] = "d_restore"]
              /\ running_apps' = {}
              /\ UNCHANGED <<mode, kres>>
    /\ UNCHANGED <<registry, backup_files, process_cache, kiosk_mode_changed,
                   pre_enable, applied>>
    /\ UNCHANGED <<enable_ok, requested, sweepVars, sessVars, netVars>>

\* _restore_registry_keys, then the end of disable_kiosk_mode: on success
\* the cache is cleared, DISABLED, the signal, return True; when the restore
\* raises, the except clause sets DISABLED and returns False.
DisableRestore(t) ==
    /\ kpc[t] = "d_restore"
    /\ \E out \in RestoreOutcomes :
         LET r == _restore_registry_keys(backup_files, registry, out) IN
         /\ registry' = r.registry
         /\ mode' = "disabled"
         /\ IF r.raised
            THEN /\ Return(t, "False")
                 /\ UNCHANGED <<process_cache, kiosk_mode_changed>>
            ELSE /\ process_cache' = {}
                 /\ kiosk_mode_changed' = Some(FALSE)
                 /\ Return(t, "True")
    /\ UNCHANGED <<backup_files, running_apps, pre_enable, applied>>
    /\ UNCHANGED <<enable_ok, requested, sweepVars, sessVars, netVars>>

\* One thread uses the controller.
KioskNext ==
    \/ EnableCall(1)
    \/ EnableBackup(1)
    \/ EnableConfigure(1)
    \/ EnableFinish(1)
    \/ EnableExcept(1)
    \/ DisableCall(1)
    \/ DisableStop(1)
    \/ DisableRestore(1)

\* Two threads use the controller.
KioskConcNext ==
    \/ \E t \in Callers : EnableCall(t)
    \/ \E t \in Callers : EnableBackup(t)
    \/ \E t \in Callers : EnableConfigure(t)
    \/ \E t \in Callers : EnableFinish(t)
    \/ \E t \in Callers : EnableExcept(t)
    \/ \E t \in Callers : DisableCall(t)
    \/ \E t \in Callers : DisableStop(t)
    \/ \E t \in Callers : DisableRestore(t)

\* The kiosk controller as its constructor leaves it.
KioskDisabled ==
    /\ mode = "disabled"
    /\ registry = NoSnapshot
    /\ backup_files = [p \in {"System", "Explorer"} |-> NoFile]
    /\ running_apps = {}
    /\ process_cache = {}
    /\ kiosk_mode_changed = None
    /\ kpc = [t \in Callers |-> "idle"]
    /\ kres = "none"
    /\ pre_enable = NoSnapshot
    /\ applied = {}
    /\ enable_ok = FALSE
    /\ requested = "none"

\* The kiosk controller after enable_kiosk_mode has returned True on a
\* machine without the policy values and without configured apps.
KioskEnabled ==
    /\ mode = "enabled"
    /\ registry = [n \in ValueNames |-> Some(LockValue)]
    /\ backup_files = [p \in {"System", "Explorer"} |-> FileOf(EnumValues(NoSnapshot, p))]
    /\ running_apps = {}
    /\ process_cache = {}
    /\ kiosk_mode_changed = Some(TRUE)
    /\ kpc = [t \in Callers |-> "idle"]
    /\ kres = "True"
    /\ pre_enable = NoSnapshot
    /\ applied = ValueNames
    /\ enable_ok = TRUE
    /\ requested = "enable"

\* The kiosk controller inside enable_kiosk_mode, called on the controller
\* its constructor left: the mode is TRANSITIONING and the backup is next.
KioskTransitioning ==
    /\ mode = "transitioning"
    /\ registry = NoSnapshot
    /\ backup_files = [p \in {"System", "Explorer"} |-> NoFile]
    /\ running_apps = {}
    /\ process_cache = {}
    /\ kiosk_mode_changed = None
    /\ kpc = [t \in Callers |-> IF Observed(t) THEN "e_backup" ELSE "idle"]
    /\ kres = "none"
    /\ pre_enable = NoSnapshot
    /\ applied = {}
    /\ enable_ok = FALSE
    /\ requested = "enable"

\* The kiosk controller as the other components see it while idle.
KioskIdle == KioskDisabled /\ SweepIdle

\* The lock screen as the other components see it while idle.
SessionIdle ==
    /\ now = 0
    /\ session = SessionState
    /\ ended_emits = 0
    /\ last_msg = Msg("init", None)
    /\ pause_snapshot = None
    /\ ext_since_pause = FALSE

KioskSpecInit == KioskInit /\ SessionIdle /\ NetIdle

KioskSpec == KioskSpecInit /\ [][KioskNext]_vars

KioskConcInit == KioskIdle /\ SessionIdle /\ NetIdle

KioskConcSpec == KioskConcInit /\ [][KioskConcNext]_vars

\* The sweep on a machine with some processes running, kiosk mode enabled,
\* disabled or in transition.
SweepInit ==
    /\ KioskDisabled \/ KioskEnabled \/ KioskTransitioning
    /\ procs \in SUBSET Candidates
    /\ blocked = [n \in BlockedNames |-> 0]
    /\ sweep_op = "init"
    /\ ListsIdle
    /\ SessionIdle
    /\ NetIdle

SweepNext ==
    \/ MonitorProcesses
    \/ SweepInterval
    \/ UpdateProcessLists

SweepSpec == SweepInit /\ [][SweepNext]_vars

\* ----------------------------------------------------------------- Init
SessionInit == SessionIdle /\ KioskIdle /\ NetIdle

\* A handler that emits session_ended on every call, acting or not.
EmitsAfter_always(s, s2) == ended_emits + 1

\* session_ended is emitted by handle_end_session exactly when it acts.
EmitsAfter(s, s2) == IF s.active /\ ~s2.active THEN ended_emits + 1 ELSE ended_emits

\* -------------------------------------------------------------- actions
Tick ==
    /\ \E d \in AdvanceBy :
         /\ now + d <= MaxNow
         /\ now' = now + d
         /\ session' = run_status_timer(session, now + d)
         /\ ended_emits' = EmitsAfter(session, run_status_timer(session, now + d))
    /\ last_msg' = Msg("tick", None)
    /\ UNCHANGED <<pause_snapshot, ext_since_pause>>
    /\ UNCHANGED <<kioskVars, netVars>>

on_start_session ==
    \E id \in SessionIds, duration \in Durations, spawned \in BOOLEAN :
        LET s2 == handle_start_session(session, now, id, duration, spawned) IN
        /\ session' = s2
        /\ last_msg' = Msg("start_session", duration)
        /\ ended_emits' = IF Truthy(id) /\ Truthy(duration) THEN 0 ELSE ended_emits
        /\ pause_snapshot' = IF Truthy(id) /\ Truthy(duration) THEN None ELSE pause_snapshot
        /\ ext_since_pause' = IF Truthy(id) /\ Truthy(duration) THEN FALSE ELSE ext_since_pause
        /\ UNCHANGED now

StartSession == on_start_session /\ UNCHANGED <<kioskVars, netVars>>

on_end_session ==
    LET s2 == handle_end_session(session) IN
    /\ session' = s2
    /\ ended_emits' = EmitsAfter(session, s2)
    /\ last_msg' = Msg("end_session", None)
    /\ UNCHANGED <<now, pause_snapshot, ext_since_pause>>

EndSession == on_end_session /\ UNCHANGED <<kioskVars, netVars>>

on_extend_session ==
    \E minutes \in ExtendMinutes :
        LET s2 == handle_extend_session(session, minutes) IN
        /\ ~IsNone(s2.end_time) => (Val(s2.end_time) <= MaxEnd /\ Val(s2.end_time) >= -MaxEnd)
        /\ session' = s2
        /\ last_msg' = Msg("extend_session", minutes)
        /\ ext_since_pause' = (ext_since_pause \/ (s2 # session /\ session.paused))
        /\ UNCHANGED <<now, ended_emits, pause_snapshot>>

ExtendSession == on_extend_session /\ UNCHANGED <<kioskVars, netVars>>

on_pause_session ==
    LET s2 == handle_pause_session(session, now) IN
    /\ session' = s2
    /\ last_msg' = Msg("pause_session", None)
    /\ pause_snapshot' = IF s2 # session /\ ~IsNone(session.end_time)
                         THEN Some(Val(session.end_time) - now) ELSE pause_snapshot
    /\ ext_since_pause' = IF s2 # session THEN FALSE ELSE ext_since_pause
    /\ UNCHANGED <<now, ended_emits>>

PauseSession == on_pause_session /\ UNCHANGED <<kioskVars, netVars>>

on_resume_session ==
    LET s2 == handle_resume_session(session, now) IN
    /\ session' = s2
    /\ last_msg' = Msg("resume_session", None)
    /\ UNCHANGED <<now, ended_emits, pause_snapshot, ext_since_pause>>

ResumeSession == on_resume_session /\ UNCHANGED <<kioskVars, netVars>>

SessionNext ==
    \/ Tick
    \/ StartSession
    \/ EndSession
    \/ ExtendSession
    \/ PauseSession
    \/ ResumeSession

SessionSpec == SessionInit /\ [][SessionNext]_vars

\* ------------------------------------------ the agent: network + session
\* The messages the receive loop hands to the session handlers here.
SessionMessages == {"start_session", "end_session"}
TerminalMessages == {"maintenance_mode", "computer_removed"}

on_message(type) ==
    CASE type = "start_session" -> on_start_session
      [] type = "end_session" -> on_end_session

\* A receive loop reads a complete line and runs the session handler
\* registered for its type, on its own thread.
RxMessage(pos) ==
    /\ thr[pos] > 0
    /\ running /\ sock = "open" /\ link_ok
    /\ \E type \in SessionMessages : on_message(type)
    /\ net_op' = "step"
    /\ emitted' = {"message_received"}
    /\ UNCHANGED <<conn, sock, running, thr, tasks, link_ok, server_up, delays,
                   failed_reconnects, terminal_error, user_disconnected,
                   terminal_disabled>>
    /\ UNCHANGED <<kioskVars, ioVars, connect_result>>

\* handle_maintenance_mode / handle_computer_removed on a receive loop:
\* handle_end_session, then network.disconnect().  On self.receive_thread
\* the join of the current thread raises, and disconnect() returns from
\* its except clause; on a stale receive thread the joins are bounded
\* waits for other threads.
RxTerminal(pos) ==
    /\ thr[pos] > 0
    /\ running /\ sock = "open" /\ link_ok
    /\ \E type \in TerminalMessages :
         /\ session' = handle_end_session(session)
         /\ ended_emits' = EmitsAfter(session, handle_end_session(session))
         /\ last_msg' = Msg(type, None)
    /\ StopAndClose
    /\ terminal_disabled' = TRUE
    /\ emitted' = {"message_received"}
    /\ IF pos = "rx"
       THEN /\ net_op' = "disconnect_returned"
            /\ UNCHANGED thr
       ELSE /\ net_op' = "step"
            /\ thr' = Move(pos, "rx_old_joining")
    /\ UNCHANGED <<conn, tasks, server_up, delays, failed_reconnects,
                   terminal_error>>
    /\ UNCHANGED <<now, pause_snapshot, ext_since_pause>>
    /\ UNCHANGED <<kioskVars, ioVars, connect_result>>

Init == SessionIdle /\ KioskIdle /\ NetIdle

\* The NetworkManager alone: no message is dispatched to a handler.
NetNext ==
    \/ OperatorConnect
    \/ \E d \in DelaySet : Reconnect(d)
    \/ ServerToggle
    \/ Drop
    \/ \E pos \in RxPositions : RxLeave(pos)
    \/ HbLeave
    \/ HbSendFails
    \/ \E stage \in LostStages : LostCheck(stage)
    \/ \E stage \in LostStages : LostAct(stage)
    \/ DisconnectBegin
    \/ DisconnectFinish("main_joining")

NetSpec == Init /\ [][NetNext]_vars

\* The NetworkManager (with the slots connected to its signals) on a
\* machine where kiosk mode is Enabled.
FailClosedInit == SessionIdle /\ KioskEnabled /\ SweepIdle /\ NetIdle

FailClosedSpec == FailClosedInit /\ [][NetNext]_vars

\* ------------------------------------------------- the receive direction
\* A line the server sends is one JSON document and '\n'.  It travels as
\* two pieces, the head and the tail that ends in '\n', so that a recv can
\* return any number of whole and half lines.  The kinds of line:
\*   handled   well-formed, and the handler registered for its type returns
\*   raises    well-formed, and the handler registered for its type raises
\*   notjson   text that json.loads rejects
\*   notutf8   bytes that bytes.decode() rejects
LineKinds == {"handled", "raises", "notjson", "notutf8"}
Piece(id, kind, part) == [id |-> id, kind |-> kind, part |-> part]

\* The state right after connect_to_server has succeeded; stale is the
\* number of receive threads of an earlier connect that are still looping.
NetEstablished(stale) ==
    /\ conn = [ConnectionState EXCEPT !.connected = TRUE,
                                      !.server_ip = Some(ServerIp),
                                      !.server_port = Some(ServerPort),
                                      !.last_heartbeat = 1]
    /\ sock = "open"
    /\ running = TRUE
    /\ thr = [p \in Positions |->
                IF p \in {"rx", "hb"} THEN 1 ELSE IF p = "rx_old" THEN stale ELSE 0]
    /\ tasks = [d \in DelaySet |-> 0]
    /\ link_ok = TRUE
    /\ server_up = TRUE
    /\ net_op = "operator_connect"
    /\ connect_result = "True"
    /\ emitted = {"connected", "connection_status_changed"}
    /\ delays = <<>>
    /\ failed_reconnects = 0
    /\ terminal_error = FALSE
    /\ user_disconnected = FALSE
    /\ terminal_disabled = FALSE

\* "while '\n' in buffer: message_str, buffer = buffer.split('\n', 1)":
\* the complete lines at the front of the buffer and what is left.
RECURSIVE SplitLines(_)
SplitLines(buf) ==
    IF \A i \in 1..Len(buf) : buf[i].part # "tail"
    THEN [lines |-> <<>>, rest |-> buf]
    ELSE LET i == CHOOSE j \in 1..Len(buf) :
                     /\ buf[j].part = "tail"
                     /\ \A h \in 1..(j - 1) : buf[h].part # "tail"
             r == SplitLines(SubSeq(buf, i + 1, Len(buf)))
         IN  [lines |-> <<SubSeq(buf, 1, i)>> \o r.lines, rest |-> r.rest]

\* json.loads accepts message_str and its type has a handler: the string
\* is exactly one line the server sent, of a kind that is JSON.
WellFormed(str) ==
    /\ Len(str) = 2
    /\ str[1].part = "head"
    /\ str[2].part = "tail"
    /\ str[1].id = str[2].id
    /\ str[1].kind \in {"handled", "raises"}

\* The lines, by id, whose handler the inner loop invokes.  A line that is
\* not JSON, and a handler that raises, are logged by the inner try and the
\* loop goes on with the next line.
Invoked(lines) ==
    LET ok == SelectSeq(lines, WellFormed) IN
    [i \in 1..Len(ok) |-> ok[i][1].id]

\* recv(4096).decode() raises UnicodeDecodeError on this chunk.
DecodeRaises(chunk) ==
    \E i \in 1..Len(chunk) : chunk[i].kind = "notutf8" /\ chunk[i].part = "head"

\* The server writes one line to the connection.
ServerSend(kind) ==
    /\ sock = "open" /\ link_ok
    /\ Len(sent) < MaxLines
    /\ sent' = Append(sent, [id |-> Len(sent) + 1, kind |-> kind])
    /\ wire' = wire \o <<Piece(Len(sent) + 1, kind, "head"),
                         Piece(Len(sent) + 1, kind, "tail")>>
    /\ net_op' = "server_send"
    /\ emitted' = {}
    /\ UNCHANGED <<conn, sock, running, thr, tasks, link_ok, server_up, delays,
                   failed_reconnects, terminal_error, user_disconnected,
                   terminal_disabled, rxbuf, dispatched, written, send_result>>
    /\ UNCHANGED <<sessVars, kioskVars, connect_result>>

\* One iteration of _receive_loop in which recv returns the first k pieces
\* on the wire.  decode() is outside the inner try: when it raises, the
\* outer except logs, the loop breaks and _handle_connection_lost is
\* called.  Otherwise the chunk is appended to the buffer and every
\* complete line is processed.
Recv(pos, k) ==
    /\ thr[pos] > 0
    /\ running /\ sock = "open" /\ link_ok
    /\ k \in 1..Len(wire)
    /\ wire' = SubSeq(wire, k + 1, Len(wire))
    /\ IF DecodeRaises(SubSeq(wire, 1, k))
       THEN /\ thr' = Move(pos, "lost_check")
            /\ rxbuf' = [rxbuf EXCEPT ![pos] = <<>>]
            /\ emitted' = {}
            /\ UNCHANGED dispatched
       ELSE LET sp == SplitLines(rxbuf[pos] \o SubSeq(wire, 1, k)) IN
            /\ rxbuf' = [rxbuf EXCEPT ![pos] = sp.rest]
            /\ dispatched' = dispatched \o Invoked(sp.lines)
            /\ emitted' = IF Invoked(sp.lines) = <<>> THEN {} ELSE {"message_received"}
            /\ UNCHANGED thr
    /\ net_op' = "recv"
    /\ UNCHANGED <<conn, sock, running, tasks, link_ok, server_up, delays,
                   failed_reconnects, terminal_error, user_disconnected,
                   terminal_disabled, sent, written, send_result>>
    /\ UNCHANGED <<sessVars, kioskVars, connect_result>>

\* One established connection, with or without a stale receive thread, the
\* server sending lines and the receive loops reading them.
RecvInit ==
    /\ SessionIdle
    /\ KioskIdle
    /\ \E stale \in {0, 1} : NetEstablished(stale)
    /\ IoIdle

RecvNext ==
    \/ \E kind \in LineKinds : ServerSend(kind)
    \/ \E pos \in RxPositions, k \in 1..(2 * MaxLines) : Recv(pos, k)
    \/ LostCheck("final")
    \/ LostAct("final")

RecvSpec == RecvInit /\ [][RecvNext]_vars

\* ---------------------------------------------------- the send direction
\* sendall puts a message line on the transport in two pieces, so that a
\* second writer in between would show.
Written(who, part) == [who |-> who, part |-> part]

\* The lines begun on the transport so far.
LinesBegun == Len(SelectSeq(written, LAMBDA w : w.part = "head"))

\* send_message without the test of state.connected and self.socket.
CallerSend_unchecked ==
    /\ thr["caller_sending"] + thr["lost_caller_check"] + thr["lost_caller_act"] = 0
    /\ ~lock_held
    /\ LinesBegun < MaxWrites
    /\ sock # "none"
    /\ thr' = [thr EXCEPT !["caller_sending"] = 1]
    /\ written' = Append(written, Written("caller", "head"))
    /\ net_op' = "send_message"
    /\ emitted' = {}
    /\ UNCHANGED <<conn, sock, running, tasks, link_ok, server_up, delays,
                   failed_reconnects, terminal_error, user_disconnected,
                   terminal_disabled, wire, sent, rxbuf, dispatched,
                   send_result, connect_result>>
    /\ UNCHANGED <<sessVars, kioskVars>>

\* A thread other than the heartbeat calls send_message.  Not connected (or
\* no socket): it returns False at once.  Otherwise it takes the lock and
\* sendall starts writing, or raises before anything is written and
\* _handle_connection_lost is called with the lock held.
CallerSend ==
    /\ thr["caller_sending"] + thr["lost_caller_check"] + thr["lost_caller_act"] = 0
    /\ IF ~conn.connected \/ sock = "none"
       THEN /\ send_result' = "False"
            /\ UNCHANGED <<thr, written>>
       ELSE /\ ~lock_held
            /\ LinesBegun < MaxWrites
            /\ IF sock = "open" /\ link_ok
               THEN /\ thr' = [thr EXCEPT !["caller_sending"] = 1]
                    /\ written' = Append(written, Written("caller", "head"))
               ELSE /\ thr' = [thr EXCEPT !["lost_caller_check"] = 1]
                    /\ UNCHANGED written
            /\ UNCHANGED send_result
    /\ net_op' = "send_message"
    /\ emitted' = {}
    /\ UNCHANGED <<conn, sock, running, tasks, link_ok, server_up, delays,
                   failed_reconnects, terminal_error, user_disconnected,
                   terminal_disabled, wire, sent, rxbuf, dispatched,
                   connect_result>>
    /\ UNCHANGED <<sessVars, kioskVars>>

\* sendall of that thread finishes the line and send_message returns True,
\* or it raises and _handle_connection_lost is called.
CallerSendEnd ==
    /\ thr["caller_sending"] > 0
    /\ IF sock = "open" /\ link_ok
       THEN /\ thr' = Leave("caller_sending")
            /\ written' = Append(written, Written("caller", "tail"))
            /\ send_result' = "True"
       ELSE /\ thr' = Move("caller_sending", "lost_caller_check")
            /\ UNCHANGED <<written, send_result>>
    /\ net_op' = "step"
    /\ emitted' = {}
    /\ UNCHANGED <<conn, sock, running, tasks, link_ok, server_up, delays,
                   failed_reconnects, terminal_error, user_disconnected,
                   terminal_disabled, wire, sent, rxbuf, dispatched,
                   connect_result>>
    /\ UNCHANGED <<sessVars, kioskVars>>

\* The heartbeat is due: the heartbeat thread calls send_message, takes the
\* lock and sendall starts writing.
HbSendBegin ==
    /\ thr["hb"] > 0
    /\ running /\ conn.connected
    /\ sock = "open" /\ link_ok
    /\ ~lock_held
    /\ LinesBegun < MaxWrites
    /\ thr' = Move("hb", "hb_sending")
    /\ written' = Append(written, Written("hb", "head"))
    /\ net_op' = "step"
    /\ emitted' = {}
    /\ UNCHANGED <<conn, sock, running, tasks, link_ok, server_up, delays,
                   failed_reconnects, terminal_error, user_disconnected,
                   terminal_disabled, wire, sent, rxbuf, dispatched,
                   send_result, connect_result>>
    /\ UNCHANGED <<sessVars, kioskVars>>

\* sendall of the heartbeat finishes the line, send_message returns True
\* and last_heartbeat is stamped; or it raises and _handle_connection_lost
\* is called with the lock held.
HbSendEnd ==
    /\ thr["hb_sending"] > 0
    /\ IF sock = "open" /\ link_ok
       THEN /\ thr' = Move("hb_sending", "hb")
            /\ written' = Append(written, Written("hb", "tail"))
            /\ conn' = [conn EXCEPT !.last_heartbeat = 1]
       ELSE /\ thr' = Move("hb_sending", "lost_first_check")
            /\ UNCHANGED <<written, conn>>
    /\ net_op' = "step"
    /\ emitted' = {}
    /\ UNCHANGED <<sock, running, tasks, link_ok, server_up, delays,
                   failed_reconnects, terminal_error, user_disconnected,
                   terminal_disabled, wire, sent, rxbuf, dispatched,
                   send_result, connect_result>>
    /\ UNCHANGED <<sessVars, kioskVars>>

\* One established connection with the heartbeat thread and one other
\* thread sending, until the connection drops.
SendInit ==
    /\ SessionIdle
    /\ KioskIdle
    /\ NetEstablished(0)
    /\ IoIdle

SendNext ==
    \/ CallerSend
    \/ CallerSendEnd
    \/ HbSendBegin
    \/ HbSendEnd
    \/ HbSendFails
    \/ HbLeave
    \/ Drop
    \/ RxLeave("rx")
    \/ \E stage \in LostStages : LostCheck(stage)
    \/ \E stage \in LostStages : LostAct(stage)

SendSpec == SendInit /\ [][SendNext]_vars

Next ==
    \/ OperatorConnect
    \/ \E d \in DelaySet : Reconnect(d)
    \/ ServerToggle
    \/ Drop
    \/ \E pos \in RxPositions : RxLeave(pos)
    \/ HbLeave
    \/ HbSendFails
    \/ \E stage \in LostStages : LostCheck(stage)
    \/ \E stage \in LostStages : LostAct(stage)
    \/ DisconnectBegin
    \/ \E pos \in JoiningPositions : DisconnectFinish(pos)
    \/ \E pos \in RxPositions : RxMessage(pos)
    \/ \E pos \in RxPositions : RxTerminal(pos)

Spec == Init /\ [][Next]_vars

\* ------------------------------------------------- session properties
\* Effective remaining time: what a paused session will get back on resume,
\* or what is left on the running countdown.
EffectiveRemaining(s, t) ==
    IF s.paused THEN Val(s.remaining_time) ELSE Val(s.end_time) - t

ExpiredRunning ==
    /\ session.active
    /\ ~session.paused
    /\ ~IsNone(session.end_time)
    /\ Val(session.end_time) <= now

\* C3: an active, unpaused session whose end_time has passed is ended by
\* the local countdown without any message: once the clock has advanced
\* (by far more than the one second period of the countdown) no session is
\* left running past its end_time, and session_ended is emitted at most
\* once per session.
C3_LocalExpiryEndsSession ==
    /\ last_msg.type = "tick" => ~ExpiredRunning
    /\ ended_emits <= 1

\* C7: an extend_session of m > 0 minutes on an active session raises the
\* effective remaining time by exactly m, paused or not.
C7_ExtendAddsMinutes ==
    [][(/\ last_msg'.type = "extend_session"
        /\ Truthy(last_msg'.arg)
        /\ Val(last_msg'.arg) > 0
        /\ session.active)
       => EffectiveRemaining(session', now') =
              EffectiveRemaining(session, now) + Val(last_msg'.arg)]_vars

\* C8: right after a resume_session that follows a pause_session with no
\* extend in between, end_time - now equals the remaining time at the pause.
C8_ResumeRestoresRemaining ==
    [][(/\ last_msg'.type = "resume_session"
        /\ session.active
        /\ session.paused
        /\ ~ext_since_pause)
       => Val(session'.end_time) - now' = Val(pause_snapshot)]_vars

\* ------------------------------------------------- kiosk properties
EnableFailedReturn == kpc[1] = "e_except" /\ kpc'[1] = "idle"

\* C4: when enable_kiosk_mode ends after a failed step, by returning or by
\* raising, the values it had set hold their pre-enable data again and the
\* mode is DISABLED.
C4_FailedEnableRollsBack ==
    [][EnableFailedReturn =>
         /\ mode' = "disabled"
         /\ \A n \in applied : registry'[n] = pre_enable[n]]_vars

\* C5: when the second of the three policy values fails to apply, after
\* enable_kiosk_mode has ended all three values hold their pre-enable data
\* (absent again if absent before) and the mode is DISABLED.
C5_SecondKeyFailsRestoresAll ==
    [][(EnableFailedReturn /\ applied = {ApplyOrder[1]}) =>
         /\ mode' = "disabled"
         /\ registry' = pre_enable]_vars

\* C6: an enable/disable call made while the mode is TRANSITIONING is
\* rejected: the caller runs none of the steps, gets failure, and the mode
\* stays as it is.
C6_CallWhileTransitioningRejected ==
    [][\A t \in Callers :
         (mode = "transitioning" /\ kpc[t] = "idle") =>
            /\ kpc'[t] = "idle"
            /\ (Observed(t) /\ kres' # kres) => (kres' = "False" /\ mode' = mode)]_vars


\* ------------------------------------------------- network properties
\* A loss of the established connection has been handled and nothing has
\* ended the retrying since: no new connection, no terminal error, no
\* disconnect() call.
RetryingAfterLoss ==
    /\ Len(delays) > 0
    /\ ~conn.connected
    /\ ~terminal_error
    /\ ~user_disconnected

\* C1: after the established connection drops, the i-th reconnect attempt
\* is scheduled with delay min(5 * 2^(i-1), 60), and every failed attempt is
\* followed by the scheduling of the next one until the terminal error.
C1_BackoffSchedule ==
    /\ \A i \in 1..Len(delays) : delays[i] = BackoffDelay(i)
    /\ (RetryingAfterLoss /\ failed_reconnects > 0)
           => (Len(delays) > failed_reconnects /\ TotalTasks > 0)

\* C2: after a loss of the established connection the client is connected
\* again, or has emitted the terminal error, or still has a reconnect
\* attempt pending: it never stops retrying silently.
C2_NeverStopsSilently ==
    RetryingAfterLoss => TotalTasks > 0

\* C9: once maintenance_mode or computer_removed has been handled, the
\* session is over and the client stays not connected until the operator
\* connects again.
C9_TerminalDisabledState ==
    (terminal_disabled /\ thr["rx_old_joining"] = 0)
        => /\ ~conn.connected
           /\ last_msg.type \in TerminalMessages => ~session.active

\* C10: when disconnect() has returned, on whatever thread it was called,
\* the loops are told to stop, the socket is closed, the state is not
\* connected and the disconnected signal has been emitted.
C10_DisconnectPostcondition ==
    net_op = "disconnect_returned"
        => /\ ~running
           /\ sock # "open"
           /\ ~conn.connected
           /\ "disconnected" \in emitted


\* C11: a call of _handle_connection_lost that finds the state already
\* disconnected returns at once: reconnect_attempts and the rest of the
\* state are unchanged, no _reconnect is scheduled, no signal is emitted.
C11_LossHandlingIdempotent ==
    [][\A stage \in LostStages :
         (~conn.connected /\ thr'[CheckPos(stage)] < thr[CheckPos(stage)])
            => /\ thr' = AfterLost(CheckPos(stage), stage)
               /\ conn' = conn
               /\ tasks' = tasks
               /\ delays' = delays
               /\ emitted' = {}]_vars

\* A second trigger of the same loss has returned without effect: one
\* reconnect was scheduled for the loss and nothing was added to it.
C11_Witness ==
    /\ net_op = "lost_noop"
    /\ ~conn.connected
    /\ conn.reconnect_attempts = 1
    /\ delays = <<BackoffDelay(1)>>
    /\ TotalTasks = 1


\* ------------------------------------------------- kiosk properties
\* C12: what get_kiosk_status returns to a thread that is not itself
\* inside enable_kiosk_mode or disable_kiosk_mode is Disabled or Enabled,
\* never Transitioning.
C12_TransitioningNeverObserved ==
    \A t \in Callers :
        kpc[t] = "idle" => get_kiosk_status(mode)[2] \in {"Disabled", "Enabled"}


\* C13: every policy value the current enable call has set to its lockdown
\* value has a backup file for its key, written by this call before the
\* value was set and holding the value it had then.
C13_AppliedHasBackup ==
    \A n \in applied :
        /\ backup_files[PathOf(n)].kind = "json"
        /\ backup_files[PathOf(n)].values[n] = pre_enable[n]


\* The observed caller's disable_kiosk_mode returns True from its last
\* step, after its enable_kiosk_mode had returned True.
DisableAfterEnableReturns ==
    /\ enable_ok
    /\ kpc[1] = "d_restore"
    /\ kpc'[1] = "idle"
    /\ kres' = "True"

\* C14: a successful enable followed by a successful disable leaves every
\* value the enable set equal to what it was before the enable (absent
\* again when it was absent), clears the process cache and ends Disabled.
C14_EnableDisableRoundTrip ==
    [][DisableAfterEnableReturns
         => /\ \A n \in applied : registry'[n] = pre_enable[n]
            /\ process_cache' = {}
            /\ mode' = "disabled"]_vars


\* C15: when one period of the monitor timer has passed with kiosk mode
\* Enabled, no cmd.exe is running any more, and process_blocked was
\* emitted once for the one that ran.
C15_CmdKilledWithinInterval ==
    (sweep_op = "interval" /\ mode = "enabled")
        => /\ \A p \in procs : p.name # "cmd.exe"
           /\ blocked["cmd.exe"] <= 1

\* What the sweep has to leave alone: a name in the system allow-list or in
\* the application allow-list, a direct parent in the system allow-list, or
\* a reserved pid.
ExemptFromSweep(p) ==
    \/ p.name \in system_processes
    \/ p.name \in monitored_processes
    \/ (~IsNone(p.parent) /\ Val(p.parent) \in system_processes)
    \/ p.pid <= ReservedPid

\* C16: a sweep in mode Enabled leaves every exempt process running and
\* emits nothing for it; every other process (that can be killed) is
\* terminated and process_blocked is emitted for it.
C16_SweepKillsExactlyUnlisted ==
    [][(sweep_op' = "sweep" /\ mode = "enabled")
         => \A p \in procs :
              /\ ExemptFromSweep(p)
                    => /\ p \in procs'
                       /\ blocked'[Lower(p.name)] = blocked[Lower(p.name)]
              /\ (~ExemptFromSweep(p) /\ ~p.protected)
                    => /\ p \notin procs'
                       /\ blocked'[Lower(p.name)] = blocked[Lower(p.name)] + 1]_vars


C18_StartEnablesKiosk ==
    [][(last_msg'.type = "start_session" /\ ~session.active /\ session'.active)
         => requested' = "enable"]_vars

\* C19: end_session on an active session resets the SessionState to its
\* defaults and triggers disable_kiosk_mode.
C19_EndDisablesKiosk ==
    [][(last_msg'.type = "end_session" /\ session.active)
         => /\ session' = SessionState
            /\ requested' = "disable"]_vars

\* C20: end_session on a session that is not active changes no state and
\* emits no session_ended.
C20_EndSessionIdempotent ==
    [][(last_msg'.type = "end_session" /\ ~session.active)
         => /\ session' = session
            /\ ended_emits' = ended_emits
            /\ now' = now
            /\ pause_snapshot' = pause_snapshot
            /\ ext_since_pause' = ext_since_pause
            /\ requested' = requested]_vars

\* end_session has been handled with no session active: nothing has been
\* emitted since the last start and the state is the idle one.
C20_Witness ==
    /\ last_msg.type = "end_session"
    /\ ~session.active
    /\ ended_emits = 0
    /\ session = SessionState

\* C21: start_session with a missing or non-positive duration (or a missing
\* session id) leaves the SessionState unchanged; any other start_session
\* makes the session active, not paused, ending duration hours from now.
C21_StartSessionValidation ==
    [][last_msg'.type = "start_session"
         => IF IsNone(last_msg'.arg) \/ Val(last_msg'.arg) <= 0
            THEN session' = session
            ELSE \/ session' = session
                 \/ /\ session'.active
                    /\ ~session'.paused
                    /\ session'.end_time
                         = Some(now + Val(last_msg'.arg) * MinutesPerHour)]_vars

\* C22: extend_session leaves every SessionState field unchanged when the
\* session is inactive or when minutes is zero or negative.
C22_ExtendNoOp ==
    [][(/\ last_msg'.type = "extend_session"
        /\ \/ ~session.active
           \/ (~IsNone(last_msg'.arg) /\ Val(last_msg'.arg) <= 0))
         => session' = session]_vars

\* An active session whose end_time has passed and that has not been ended.
ExpiredNotEnded(s) == s.active /\ ~IsNone(s.end_time) /\ Val(s.end_time) <= now

\* C23: extend_session with positive minutes on an active session whose
\* end_time has already passed still applies, counts from the stored
\* end_time and not from now, and when the new end_time is in the future the
\* expiry check that runs next does not end the session.
C23_ExtendAfterExpiry ==
    [][(/\ last_msg'.type = "extend_session"
        /\ ~IsNone(last_msg'.arg) /\ Val(last_msg'.arg) > 0
        /\ ExpiredNotEnded(session))
         => /\ session'.end_time = Some(Val(session.end_time) + Val(last_msg'.arg))
            /\ session'.active
            /\ Val(session'.end_time) > now' => update_status(session', now').active]_vars

\* An extension of 30 minutes was applied to a running session that had
\* expired, and its new end_time is in the future.
C23_Witness ==
    /\ last_msg = Msg("extend_session", Some(30))
    /\ session.active /\ ~session.paused
    /\ ~IsNone(session.end_time)
    /\ Val(session.end_time) - 30 <= now
    /\ Val(session.end_time) > now

\* C24: in every reachable SessionState pause_time and remaining_time are
\* present only while paused is true, and end_time is absent while the
\* session is inactive.
C24_OptionalFieldsMatchFlags ==
    /\ ~session.paused => (IsNone(session.pause_time) /\ IsNone(session.remaining_time))
    /\ ~session.active => IsNone(session.end_time)

\* ------------------------------------------------ transport properties
\* The lines whose handler is to be invoked, in the order they were sent.
Receivable ==
    LET ok == SelectSeq(sent, LAMBDA l : l.kind \in {"handled", "raises"}) IN
    [i \in 1..Len(ok) |-> ok[i].id]

IsPrefix(a, b) == Len(a) <= Len(b) /\ a = SubSeq(b, 1, Len(a))

\* C25: within one connection the handlers are invoked for the well-formed
\* lines in the order the lines were received, none skipped or reordered:
\* what has been dispatched is always a prefix of what was sent.
C25_DispatchInReceiptOrder == IsPrefix(dispatched, Receivable)

\* The kinds of line that are malformed: not JSON (as text or as bytes), or
\* JSON whose handler raises.
MalformedKinds == {"notjson", "notutf8", "raises"}

\* A receive loop takes pieces off the wire in this step, a piece of a
\* malformed line among them.
ReadsMalformed ==
    /\ Len(wire') < Len(wire)
    /\ \E i \in 1..(Len(wire) - Len(wire')) : wire[i].kind \in MalformedKinds

\* C26: a malformed line is discarded without ending the receive loop and
\* without connection-loss handling: the thread stays in its loop, the
\* connection stays up, and (one receive thread, everything read) every
\* well-formed line sent on the connection has been dispatched.
C26_MalformedLineDiscarded ==
    /\ [][ReadsMalformed => (thr' = thr /\ conn' = conn /\ tasks' = tasks)]_vars
    /\ []((thr["rx_old"] = 0 /\ wire = <<>>) => dispatched = Receivable)

\* A call of connect_to_server ends in failure in this step: the
\* operator's call while disconnected with the server down, or the call
\* made by a _reconnect thread.
ConnectFails ==
    \/ net_op' = "operator_connect" /\ ~conn.connected /\ ~server_up
    \/ failed_reconnects' = failed_reconnects + 1

\* C27: a connect that fails returns failure, emits nothing, leaves the
\* state disconnected with reconnect_attempts unchanged, starts no loop
\* and schedules no retry.
C27_FailedConnectIsSilent ==
    [][ConnectFails
         => /\ connect_result' = "False"
            /\ emitted' = {}
            /\ ~conn'.connected
            /\ conn'.reconnect_attempts = conn.reconnect_attempts
            /\ thr' = thr
            /\ \A d \in DelaySet : tasks'[d] <= tasks[d]
            /\ delays' = delays]_vars

\* The operator's connect has just failed after an earlier loss: one
\* reconnect attempt is on record and nothing is left to retry.
C27_Witness ==
    /\ net_op = "operator_connect"
    /\ connect_result = "False"
    /\ ~conn.connected
    /\ ~server_up
    /\ conn.reconnect_attempts = 1
    /\ TotalTasks = 0

\* C28: send_message called while the state is not connected returns
\* False, writes nothing to the transport, changes no ConnectionState field
\* and starts nothing.
C28_SendFailsClosed ==
    [][(~conn.connected /\ net_op' = "send_message")
         => /\ send_result' = "False"
            /\ written' = written
            /\ conn' = conn
            /\ thr' = thr
            /\ tasks' = tasks]_vars

\* send_message has just been refused: the connection had been lost while
\* a line of the heartbeat was on its way, and nothing was written since.
C28_Witness ==
    /\ net_op = "send_message"
    /\ send_result = "False"
    /\ ~conn.connected
    /\ sock = "open"
    /\ written = <<Written("hb", "head")>>

\* C29: at most one thread is inside the socket write at any time, and the
\* lines on the transport are whole: every line begun is followed at once
\* by its own end, except a last line still being written (or cut off by
\* the failure of its sendall).
C29_SendsDoNotInterleave ==
    /\ thr["hb_sending"] + thr["caller_sending"] <= 1
    /\ \A i \in 1..(Len(written) - 1) :
         written[i].part = "head"
            => written[i + 1] = Written(written[i].who, "tail")
    /\ written # <<>> => written[1].part = "head"

\* A whole line of the caller stands on the transport between two of the
\* heartbeat, and the heartbeat is writing again.
C29_Witness ==
    /\ Len(written) = 5
    /\ written[1].who = "hb"
    /\ written[3].who = "caller"
    /\ written[5] = Written("hb", "head")
    /\ thr["hb_sending"] = 1

\* C30: while kiosk mode is Enabled, an update of the allow-list ends with
\* every running process terminated whose name the update has removed from
\* the allow-list (a process the sweep exempts, or that cannot be killed,
\* aside).
C30_UpdateReSweeps ==
    [][(sweep_op' = "update" /\ mode = "enabled")
         => \A p \in procs :
              (/\ Lower(p.name) \in allowed_processes
               /\ Lower(p.name) \notin allowed_processes'
               /\ ~ExemptFromSweep(p)
               /\ ~p.protected)
                 => p \notin procs']_vars

\* C32: a connection loss detected by several threads at once is handled
\* once: since the last successful connect at most one reconnection has
\* been scheduled and reconnect_attempts has been raised by at most 1.
C32_LossHandledOnce ==
    /\ Len(delays) <= 1
    /\ conn.reconnect_attempts <= 1

\* A _reconnect thread re-establishes a connection that was lost (not
\* closed by disconnect()) and starts new loops.
ReconnectsAfterLoss ==
    /\ TotalTasks' < TotalTasks
    /\ sock = "open"
    /\ ~conn.connected
    /\ conn'.connected

\* C33: at most one receive loop runs at any time: when a reconnect starts
\* new loops, the receive loop of the lost connection has exited.  (The
\* claim says the same of the heartbeat loop.)
C33_OneReceiveLoop ==
    [][ReconnectsAfterLoss
         => thr'["rx"] + thr'["rx_old"] + thr'["rx_old_joining"] <= 1]_vars

\* TimerWindow (main.py): disconnect() of its network_manager after the
\* bounded joins.  The disconnected signal runs handle_disconnected on the
\* calling thread before disconnect() returns; that slot calls
\* TimerWindow.connect_to_server, which connects to the configured server
\* when data/client_config.json names one.
WindowDisconnectFinish ==
    /\ thr["main_joining"] > 0
    /\ \E config \in {"absent", "present"} :
         IF config = "present" /\ server_up
         THEN /\ LoopThreads <= MaxStale
              /\ conn' = [conn EXCEPT !.connected = TRUE,
                                      !.server_ip = Some(ServerIp),
                                      !.server_port = Some(ServerPort),
                                      !.last_heartbeat = 1,
                                      !.reconnect_attempts = 0]
              /\ sock' = "open"
              /\ link_ok' = TRUE
              /\ running' = TRUE
              /\ thr' = [Leave("main_joining") EXCEPT
                            !["rx_old"] = @ + thr["rx"], !["rx"] = 1,
                            !["hb"] = @ + 1]
              /\ emitted' = {"disconnected", "connection_status_changed",
                             "connected"}
              /\ connect_result' = "True"
              /\ Established
         ELSE /\ conn' = _cleanup_connection(conn)
              /\ sock' = "none"
              /\ link_ok' = FALSE
              /\ thr' = Leave("main_joining")
              /\ emitted' = {"disconnected", "connection_status_changed"}
              /\ connect_result' = IF config = "present" THEN "False"
                                   ELSE connect_result
              /\ UNCHANGED <<running, delays, failed_reconnects,
                             terminal_error, user_disconnected>>
    /\ net_op' = "disconnect_returned"
    /\ UNCHANGED <<tasks, server_up, terminal_disabled>>
    /\ UNCHANGED <<sessVars, kioskVars, ioVars>>

\* closeEvent of the window while the client is connected: disconnect() up
\* to the joins.
WindowDisconnectBegin == conn.connected /\ DisconnectBegin

\* The NetworkManager of a TimerWindow: as NetNext, with disconnect()
\* called on a connected client and the window's slot run by it.
WindowNext ==
    \/ OperatorConnect
    \/ \E d \in DelaySet : Reconnect(d)
    \/ ServerToggle
    \/ Drop
    \/ \E pos \in RxPositions : RxLeave(pos)
    \/ HbLeave
    \/ HbSendFails
    \/ \E stage \in LostStages : LostCheck(stage)
    \/ \E stage \in LostStages : LostAct(stage)
    \/ WindowDisconnectBegin
    \/ WindowDisconnectFinish

WindowSpec == Init /\ [][WindowNext]_vars

\* C34: when a disconnect() called by the operator on a connected client
\* returns, the client is not connected, and
\* from then on connected becomes true again only by a connect the operator
\* makes.
C34_StaysDisconnected ==
    [][/\ (net_op' = "disconnect_returned" => ~conn'.connected)
       /\ (/\ user_disconnected
           /\ thr["main_joining"] = 0
           /\ ~conn.connected
           /\ conn'.connected
           => net_op' = "operator_connect")]_vars

\* The handler invocations of a TimerWindow for the ids a receive loop
\* dispatches: message_received.emit runs (or queues) the slot
\* handle_network_message, which looks the handler up in message_handlers
\* and calls it; the loop then calls the same handler itself.
WindowInvoked(ids) ==
    [i \in 1..(2 * Len(ids)) |-> ids[(i + 1) \div 2]]

\* One iteration of _receive_loop in the NetworkManager of a TimerWindow,
\* whose handle_network_message is connected to message_received.
WindowRecv(pos, k) ==
    /\ thr[pos] > 0
    /\ running /\ sock = "open" /\ link_ok
    /\ k \in 1..Len(wire)
    /\ wire' = SubSeq(wire, k + 1, Len(wire))
    /\ IF DecodeRaises(SubSeq(wire, 1, k))
       THEN /\ thr' = Move(pos, "lost_check")
            /\ rxbuf' = [rxbuf EXCEPT ![pos] = <<>>]
            /\ emitted' = {}
            /\ UNCHANGED dispatched
       ELSE LET sp == SplitLines(rxbuf[pos] \o SubSeq(wire, 1, k)) IN
            /\ rxbuf' = [rxbuf EXCEPT ![pos] = sp.rest]
            /\ dispatched' = dispatched \o WindowInvoked(Invoked(sp.lines))
            /\ emitted' = IF Invoked(sp.lines) = <<>> THEN {} ELSE {"message_received"}
            /\ UNCHANGED thr
    /\ net_op' = "recv"
    /\ UNCHANGED <<conn, sock, running, tasks, link_ok, server_up, delays,
                   failed_reconnects, terminal_error, user_disconnected,
                   terminal_disabled, sent, written, send_result>>
    /\ UNCHANGED <<sessVars, kioskVars, connect_result>>

WindowRecvNext ==
    \/ \E kind \in LineKinds : ServerSend(kind)
    \/ \E pos \in RxPositions, k \in 1..(2 * MaxLines) : WindowRecv(pos, k)
    \/ LostCheck("final")
    \/ LostAct("final")

WindowRecvSpec == RecvInit /\ [][WindowRecvNext]_vars

\* C35: the handler of a well-formed line with a registered handler is run
\* exactly once for that line (no line's id is dispatched twice), also when
\* the client registers handlers and subscribes to message_received.
C35_HandlerRunsOnce ==
    \A i, j \in 1..Len(dispatched) : dispatched[i] = dispatched[j] => i = j

\* C36: whenever no enable_kiosk_mode or disable_kiosk_mode call is in
\* flight, the value of the most recent kiosk_mode_changed notification
\* equals (mode = Enabled), also after a call that failed.
C36_NotificationMatchesMode ==
    (/\ \A t \in Callers : kpc[t] = "idle"
     /\ ~IsNone(kiosk_mode_changed))
    => (Val(kiosk_mode_changed) = (mode = "enabled"))

\* C37: a run of the sweep while the mode is Disabled or Transitioning
\* terminates no process and emits no process_blocked; only a sweep in
\* Enabled mode does.
C37_SweepOnlyWhenEnabled ==
    [][(sweep_op' = "sweep" /\ mode # "enabled")
         => (procs' = procs /\ blocked' = blocked)]_vars

\* A sweep has run in Transitioning mode with cmd.exe running, which a
\* sweep in Enabled mode kills.
C37_Witness ==
    /\ sweep_op = "sweep"
    /\ mode = "transitioning"
    /\ \E p \in procs : p.name = "cmd.exe"

UpdateStatus ==
    LET s2 == update_status(session, now) IN
    /\ session' = s2
    /\ ended_emits' = EmitsAfter(session, s2)
    /\ last_msg' = Msg("update_status", None)
    /\ UNCHANGED <<now, pause_snapshot, ext_since_pause>>
    /\ UNCHANGED <<kioskVars, netVars>>

\* The lock screen with its local countdown running.
StatusNext ==
    \/ Tick
    \/ StartSession
    \/ EndSession
    \/ ExtendSession
    \/ PauseSession
    \/ ResumeSession
    \/ UpdateStatus

StatusSpec == SessionInit /\ [][StatusNext]_vars

\* C39: while the session is paused, a run of the local countdown never
\* ends it (it leaves the session as it is), however far the clock is
\* beyond the stored end time.
C39_PausedNeverExpires ==
    [][(session.active /\ session.paused /\ last_msg'.type = "update_status")
         => (session' = session /\ ended_emits' = ended_emits)]_vars

\* The countdown has run on a paused session whose stored end time has
\* passed.
C39_Witness ==
    /\ last_msg.type = "update_status"
    /\ session.active
    /\ session.paused
    /\ ~IsNone(session.end_time)
    /\ Val(session.end_time) < now

\* The two threads that can end the session: the receive thread, whose loop
\* calls the end_session handler directly, and the GUI thread, on which the
\* slot update_status runs.
EndThreads == {"rx", "timer"}
EndActPos(who) == IF who = "rx" THEN "end_rx_act" ELSE "end_timer_act"

\* The statements of handle_end_session after its state.active test: the
\* fields are reset, the timer UI is closed and session_ended is emitted.
handle_end_session_act(s) ==
    close_timer_ui(
        [s EXCEPT !.active = FALSE, !.session_id = None, !.end_time = None,
                  !.paused = FALSE, !.pause_time = None, !.remaining_time = None])

\* A thread comes to the state.active test of handle_end_session: the
\* receive thread with an end_session message, the GUI thread from
\* update_status and update_timer_ui when these find an active, unpaused
\* session whose end time has passed.  No lock is taken.
EndSessionTest(who) ==
    /\ thr[EndActPos(who)] = 0
    /\ LET called == \/ who = "rx"
                     \/ /\ session.active
                        /\ ~session.paused
                        /\ ~IsNone(session.end_time)
                        /\ Val(session.end_time) - now <= 0 IN
       thr' = IF called /\ session.active
              THEN [thr EXCEPT ![EndActPos(who)] = 1]
              ELSE thr
    /\ last_msg' = Msg(IF who = "rx" THEN "end_session" ELSE "update_status", None)
    /\ UNCHANGED <<now, session, ended_emits, pause_snapshot, ext_since_pause>>
    /\ UNCHANGED <<conn, sock, running, tasks, link_ok, server_up, net_op,
                   emitted, delays, failed_reconnects, terminal_error,
                   user_disconnected, terminal_disabled, connect_result>>
    /\ UNCHANGED <<kioskVars, ioVars>>

\* The thread goes on after the test.
EndSessionAct(who) ==
    /\ thr[EndActPos(who)] > 0
    /\ thr' = Leave(EndActPos(who))
    /\ session' = handle_end_session_act(session)
    /\ ended_emits' = ended_emits + 1
    /\ last_msg' = Msg("session_ended", None)
    /\ UNCHANGED <<now, pause_snapshot, ext_since_pause>>
    /\ UNCHANGED <<conn, sock, running, tasks, link_ok, server_up, net_op,
                   emitted, delays, failed_reconnects, terminal_error,
                   user_disconnected, terminal_disabled, connect_result>>
    /\ UNCHANGED <<kioskVars, ioVars>>

\* Sessions started by the server and ended by the server and by the local
\* countdown, each on its own thread.
EndRaceNext ==
    \/ Tick
    \/ StartSession
    \/ \E who \in EndThreads : EndSessionTest(who)
    \/ \E who \in EndThreads : EndSessionAct(who)

EndRaceSpec == SessionInit /\ [][EndRaceNext]_vars

\* C38: an end_session handled on the receive thread while the expiry
\* check runs on the timer thread ends the session once: session_ended is
\* emitted at most once for a session.
C38_EndedOnceUnderRace == ended_emits <= 1

\* The running processes spawned for the app n.
AppProcs(ps, n) == {p \in ps : p.name = n}

\* What launch_allowed_app meets after the allowed_apps lookup: the path
\* does not exist, Popen raises, or the process is spawned.
LaunchOutcomes == {"missing", "raises", "spawned"}

\* launch_allowed_app(app_name), called by the observed caller between its
\* other calls: False for a name that is not in allowed_apps, False (and
\* app_launch_failed) when the path is missing or Popen raises, otherwise
\* subprocess.Popen and True.  running_apps is neither read nor written.
LaunchAllowedApp ==
    /\ kpc[1] = "idle"
    /\ \E app_name \in Apps \cup {"other"}, out \in LaunchOutcomes :
         IF app_name \notin Apps \/ out # "spawned"
         THEN /\ kres' = "False"
              /\ UNCHANGED procs
         ELSE /\ Cardinality(AppProcs(procs, app_name)) < MaxLaunches
              /\ procs' = procs \cup {Proc(app_name,
                                           ReservedPid + 1 + Cardinality(procs),
                                           None, FALSE)}
              /\ kres' = "True"
    /\ requested' = "launch"
    /\ UNCHANGED <<mode, registry, backup_files, running_apps, process_cache,
                   kiosk_mode_changed, kpc, pre_enable, applied, enable_ok,
                   blocked, sweep_op, allowed_processes, blocked_processes>>
    /\ UNCHANGED <<sessVars, netVars>>

\* One thread uses the controller and launches apps on request.
LaunchNext ==
    \/ EnableCall(1)
    \/ EnableBackup(1)
    \/ EnableConfigure(1)
    \/ EnableFinish(1)
    \/ EnableExcept(1)
    \/ DisableCall(1)
    \/ DisableStop(1)
    \/ DisableRestore(1)
    \/ LaunchAllowedApp

LaunchSpec == KioskConcInit /\ [][LaunchNext]_vars

\* C31: a launch_allowed_app that returns True leaves a handle for the app
\* in running_apps, and spawns no process when the app was already running
\* (recorded in running_apps, or spawned by an earlier launch).
C31_LaunchIdempotent ==
    [][(requested' = "launch" /\ kres' = "True")
         => /\ \A n \in Apps : AppProcs(procs', n) # AppProcs(procs, n)
                                  => n \in running_apps'
            /\ \A n \in Apps : (n \in running_apps \/ AppProcs(procs, n) # {})
                                  => procs' = procs]_vars

====
